---- MODULE Spec2Model ----
(***************************************************************************)
(* Model of the multi-source ticket scraper: the three extractors, the     *)
(* result filters (formatter.go), the team-name normalizer and the         *)
(* /api/scrape handler (main.go).                                          *)
(*                                                                         *)
(* Go strings are TLA+ strings; Len, SubSeq and \o act on them character   *)
(* by character.  A *ScrapingResult is an index into the sequence `heap`   *)
(* (0 is nil), so that a function writing through its receiver is          *)
(* expressible and "returns a new value" is a property, not an assumption. *)
(***************************************************************************)
EXTENDS Integers, Sequences, FiniteSets, TLC

VARIABLES
    heap,        \* Seq(ScrapingResult): every ScrapingResult allocated so far
    now,         \* the wall clock read by time.Now()
    collectors,  \* Seq(collector): every colly collector made so far
    web,         \* what a fetch of each site can return
    req,         \* the query parameters of each request
    pc,          \* where the handler of each request stands
    loc,         \* the local variables of each handler
    resp,        \* the response written to each request
    work,        \* history: the work each handler has done, in order
    fetched,     \* history: what each request's own fetches returned
    writers,     \* history: the requests that have written each object
    calls        \* history: the library calls made on heap objects

(***************************************************************************)
(* strings                                                                 *)
(***************************************************************************)
Char(s, i) == SubSeq(s, i, i)

UpperChars == "ABCDEFGHIJKLMNOPQRSTUVWXYZÁÉÍÓÚÑÇ"
LowerChars == "abcdefghijklmnopqrstuvwxyzáéíóúñç"
Digits == "0123456789"

CharSet(s) == { Char(s, i) : i \in 1..Len(s) }

IndexOfChar(s, c) == CHOOSE i \in 1..Len(s) : Char(s, i) = c

Min2(a, b) == IF a < b THEN a ELSE b
Max2(a, b) == IF a > b THEN a ELSE b

\* the least element of a non-empty set of integers
MinOf(S) == CHOOSE x \in S : \A y \in S : x <= y
MaxOf(S) == CHOOSE x \in S : \A y \in S : x >= y

\* unicode.ToLower and unicode.ToTitle on one character
LowerChar(c) ==
    IF c \in CharSet(UpperChars) THEN Char(LowerChars, IndexOfChar(UpperChars, c)) ELSE c

UpperChar(c) ==
    IF c \in CharSet(LowerChars) THEN Char(UpperChars, IndexOfChar(LowerChars, c)) ELSE c

\* the characters lo..hi of s in lower case, by halves
RECURSIVE ToLowerRange(_, _, _)
ToLowerRange(s, lo, hi) ==
    IF lo > hi THEN ""
    ELSE IF lo = hi THEN LowerChar(Char(s, lo))
    ELSE ToLowerRange(s, lo, (lo + hi) \div 2) \o ToLowerRange(s, ((lo + hi) \div 2) + 1, hi)

\* strings.ToLower
ToLower(s) == ToLowerRange(s, 1, Len(s))

\* strings.Contains
Contains(s, substr) ==
    \E i \in 1..(Len(s) - Len(substr) + 1) : SubSeq(s, i, i + Len(substr) - 1) = substr

\* strings.HasPrefix
HasPrefix(s, prefix) ==
    Len(s) >= Len(prefix) /\ SubSeq(s, 1, Len(prefix)) = prefix

IsSpace(c) == c \in {" ", "\t", "\n", "\r"}

\* the positions of s that hold no white space
NonSpace(s) == { i \in 1..Len(s) : ~IsSpace(Char(s, i)) }

TrimTo(s, keep) == IF keep = {} THEN "" ELSE SubSeq(s, MinOf(keep), MaxOf(keep))

\* strings.TrimSpace
TrimSpace(s) == TrimTo(s, NonSpace(s))

IsDigit(s, i) == i <= Len(s) /\ Char(s, i) \in CharSet(Digits)

DigitVal(c) == IndexOfChar(Digits, c) - 1

(***************************************************************************)
(* time.Time: a civil date and time of day in UTC                          *)
(***************************************************************************)
Time(y, m, d, hh, mm) == [year |-> y, month |-> m, day |-> d, hour |-> hh, min |-> mm]

\* an order-preserving key of a normalized Time
TimeKey(t) == (((t.year * 12 + t.month) * 31 + t.day) * 24 + t.hour) * 60 + t.min

After(t, u) == TimeKey(t) > TimeKey(u)
Before(t, u) == TimeKey(t) < TimeKey(u)
Equal(t, u) == TimeKey(t) = TimeKey(u)

IsLeap(y) == y % 4 = 0 /\ (y % 100 # 0 \/ y % 400 = 0)

DaysIn(m, y) ==
    IF m = 2 THEN (IF IsLeap(y) THEN 29 ELSE 28)
    ELSE IF m \in {4, 6, 9, 11} THEN 30 ELSE 31

\* t.AddDate(years, 0, 0): the date is normalized (29 Feb of a common year
\* becomes 1 Mar)
AddYears(t, years) ==
    LET y == t.year + years
    IN  IF t.day > DaysIn(t.month, y)
        THEN [t EXCEPT !.year = y, !.month = t.month + 1, !.day = t.day - DaysIn(t.month, y)]
        ELSE [t EXCEPT !.year = y]

(***************************************************************************)
(* time.Parse, for the layout elements the program's formats use           *)
(***************************************************************************)
\* the reference-time elements of a layout, as time.nextStdChunk finds them
StdTokens == <<"2006", "Jan", "Mon", "01", "02", "04", "pm", "3">>

\* the elements that start at position i of the layout
StdHits(layout, i) ==
    { k \in 1..Len(StdTokens) :
        i + Len(StdTokens[k]) - 1 <= Len(layout)
        /\ SubSeq(layout, i, i + Len(StdTokens[k]) - 1) = StdTokens[k] }

\* the positions from i on where an element starts
StdPositions(layout, i) == { p \in i..Len(layout) : StdHits(layout, p) # {} }

\* a layout cut into <<literal prefix, element>> chunks; the last chunk holds
\* the literal suffix and no element
RECURSIVE ChunksFrom(_, _)
ChunkAt(layout, start, p, std) ==
    << [prefix |-> SubSeq(layout, start, p - 1), std |-> std] >>
    \o ChunksFrom(layout, p + Len(std))

ChunksNext(layout, start, positions) ==
    IF positions = {}
    THEN << [prefix |-> SubSeq(layout, start, Len(layout)), std |-> ""] >>
    ELSE ChunkAt(layout, start, MinOf(positions),
                 StdTokens[MinOf(StdHits(layout, MinOf(positions)))])

ChunksFrom(layout, start) == ChunksNext(layout, start, StdPositions(layout, start))

Chunks(layout) == ChunksFrom(layout, 1)

\* time.cutspace
CutSpaceTo(s, keep) == IF keep = {} THEN "" ELSE SubSeq(s, MinOf(keep), Len(s))
CutSpace(s) == CutSpaceTo(s, { i \in 1..Len(s) : Char(s, i) # " " })

\* time.skip: the literal prefix must lead the value, a space of the layout
\* standing for any run of spaces of the value
RECURSIVE Skip(_, _)
Skip(value, prefix) ==
    IF Len(prefix) = 0 THEN [ok |-> TRUE, v |-> value]
    ELSE IF Char(prefix, 1) = " "
    THEN IF Len(value) > 0 /\ Char(value, 1) # " "
         THEN [ok |-> FALSE, v |-> value]
         ELSE Skip(CutSpace(value), CutSpace(prefix))
    ELSE IF Len(value) = 0 \/ Char(value, 1) # Char(prefix, 1)
    THEN [ok |-> FALSE, v |-> value]
    ELSE Skip(SubSeq(value, 2, Len(value)), SubSeq(prefix, 2, Len(prefix)))

\* time.getnum: one or two digits, exactly two when fixed
GetNum(value, fixed) ==
    IF ~IsDigit(value, 1) THEN [ok |-> FALSE, n |-> 0, v |-> value]
    ELSE IF ~IsDigit(value, 2)
    THEN IF fixed THEN [ok |-> FALSE, n |-> 0, v |-> value]
         ELSE [ok |-> TRUE, n |-> DigitVal(Char(value, 1)), v |-> SubSeq(value, 2, Len(value))]
    ELSE [ok |-> TRUE, n |-> DigitVal(Char(value, 1)) * 10 + DigitVal(Char(value, 2)),
          v |-> SubSeq(value, 3, Len(value))]

ShortMonthNames == <<"jan", "feb", "mar", "apr", "may", "jun",
                     "jul", "aug", "sep", "oct", "nov", "dec">>
ShortDayNames == <<"sun", "mon", "tue", "wed", "thu", "fri", "sat">>

\* time.lookup: the index of the name that leads the value, letter case
\* ignored; 0 when none does
LookupHits(tab, head) == { k \in 1..Len(tab) : tab[k] = head }
LookupIn(hits) == IF hits = {} THEN 0 ELSE MinOf(hits)
Lookup(tab, value) ==
    IF Len(value) < 3 THEN 0 ELSE LookupIn(LookupHits(tab, ToLower(SubSeq(value, 1, 3))))

NoFields == [year |-> 0, month |-> 1, day |-> 1, hour |-> 0, min |-> 0, pm |-> ""]

Bad(value, f) == [ok |-> FALSE, v |-> value, f |-> f]
Good(value, f) == [ok |-> TRUE, v |-> value, f |-> f]

\* a number element: g is what getnum read, lo..hi the range accepted
NumField(value, f, g, lo, hi, field) ==
    IF g.ok /\ g.n >= lo /\ g.n <= hi
    THEN Good(g.v, [f EXCEPT ![field] = g.n])
    ELSE Bad(value, f)

\* a name element: k is what lookup found
NameField(value, f, k, field) ==
    IF k = 0 THEN Bad(value, f)
    ELSE IF field = "" THEN Good(SubSeq(value, 4, Len(value)), f)
    ELSE Good(SubSeq(value, 4, Len(value)), [f EXCEPT ![field] = k])

Year4(value) ==
    DigitVal(Char(value, 1)) * 1000 + DigitVal(Char(value, 2)) * 100
    + DigitVal(Char(value, 3)) * 10 + DigitVal(Char(value, 4))

\* one element of the layout read off the front of the value
ParseStd(std, value, f) ==
    CASE std = "" -> Good(value, f)
      [] std = "2006" ->
            IF Len(value) >= 4 /\ \A i \in 1..4 : IsDigit(value, i)
            THEN Good(SubSeq(value, 5, Len(value)), [f EXCEPT !.year = Year4(value)])
            ELSE Bad(value, f)
      [] std = "01" -> NumField(value, f, GetNum(value, TRUE), 1, 12, "month")
      \* any two digits are read as the day; the date is validated at the end
      [] std = "02" -> NumField(value, f, GetNum(value, TRUE), 0, 99, "day")
      [] std = "Jan" -> NameField(value, f, Lookup(ShortMonthNames, value), "month")
      [] std = "Mon" -> NameField(value, f, Lookup(ShortDayNames, value), "")
      [] std = "3" -> NumField(value, f, GetNum(value, FALSE), 0, 12, "hour")
      [] std = "04" -> NumField(value, f, GetNum(value, TRUE), 0, 59, "min")
      [] std = "pm" ->
            IF Len(value) >= 2 /\ SubSeq(value, 1, 2) \in {"am", "pm"}
            THEN Good(SubSeq(value, 3, Len(value)), [f EXCEPT !.pm = SubSeq(value, 1, 2)])
            ELSE Bad(value, f)

RECURSIVE ParseChunks(_, _, _, _)
AfterStd(chunks, k, p) == IF ~p.ok THEN p ELSE ParseChunks(chunks, k + 1, p.v, p.f)

AfterSkip(chunks, k, value, f, s) ==
    IF ~s.ok THEN Bad(value, f) ELSE AfterStd(chunks, k, ParseStd(chunks[k].std, s.v, f))

ParseChunks(chunks, k, value, f) ==
    IF k > Len(chunks) THEN Good(value, f)
    ELSE AfterSkip(chunks, k, value, f, Skip(value, chunks[k].prefix))

\* the 12-hour clock resolved by the am/pm mark
Hour24(f) ==
    IF f.pm = "pm" /\ f.hour < 12 THEN f.hour + 12
    ELSE IF f.pm = "am" /\ f.hour = 12 THEN 0 ELSE f.hour

\* the end of time.Parse: the whole value must have matched and the day must
\* exist in its month
ParsedTime(r) ==
    IF r.ok /\ Len(r.v) = 0 /\ r.f.day >= 1 /\ r.f.day <= DaysIn(r.f.month, r.f.year)
    THEN [ok |-> TRUE, t |-> Time(r.f.year, r.f.month, r.f.day, Hour24(r.f), r.f.min)]
    ELSE [ok |-> FALSE, t |-> Time(1, 1, 1, 0, 0)]

\* time.Parse(layout, value)
TimeParse(layout, value) == ParsedTime(ParseChunks(Chunks(layout), 1, value, NoFields))

(***************************************************************************)
(* formatter.go                                                            *)
(***************************************************************************)
\* the formats parseEventDate tries, in order
formats == <<
    "02 Jan Mon 3:04pm",
    "Jan 02 Mon 3:04pm",
    "02 Jan 2006",
    "Jan 02 2006",
    "02 Jan",
    "Jan 02",
    "2006-01-02",
    "02/01/2006",
    "01/02/2006" >>

\* a date that carries no year is moved to the current year, or to the next
\* one when its month and day are before today's
InferYear(t, nowT) ==
    IF t.year = 0
    THEN IF t.month < nowT.month \/ (t.month = nowT.month /\ t.day < nowT.day)
         THEN AddYears(t, nowT.year + 1)
         ELSE AddYears(t, nowT.year)
    ELSE t

\* the formats that parse the string
MatchingFormats(dateTimeStr) ==
    { k \in 1..Len(formats) : TimeParse(formats[k], dateTimeStr).ok }

\* the first format that parses the string decides
ParsedBy(dateTimeStr, nowT, matching) ==
    IF matching = {} THEN [ok |-> FALSE, t |-> nowT]
    ELSE [ok |-> TRUE, t |-> InferYear(TimeParse(formats[MinOf(matching)], dateTimeStr).t, nowT)]

\* parseEventDate: ok is "err == nil"
parseEventDate(dateTimeStr, nowT) ==
    ParsedBy(dateTimeStr, nowT, MatchingFormats(dateTimeStr))

\* types.go: TicketEvent and ScrapingResult
TicketEvent(dateTime, event, link, source) ==
    [DateTime |-> dateTime, Event |-> event, Link |-> link, Source |-> source]

ScrapingResult(events, total, timestamp, sourceURL, source) ==
    [Events |-> events, Total |-> total, Timestamp |-> timestamp,
     SourceURL |-> sourceURL, Source |-> source]

\* KeywordMatch comparing the fields as they are written
KeywordMatchCaseSensitive(event, keywordLower) ==
    \/ Contains(event.Event, keywordLower)
    \/ Contains(event.DateTime, keywordLower)
    \/ Contains(event.Source, keywordLower)

\* the condition of FilterByKeyword's loop
KeywordMatch(event, keywordLower) ==
    \/ Contains(ToLower(event.Event), keywordLower)
    \/ Contains(ToLower(event.DateTime), keywordLower)
    \/ Contains(ToLower(event.Source), keywordLower)

\* the loop of FilterByKeyword: filtered.Events after the events from i on
RECURSIVE KeywordLoop(_, _, _, _)
KeywordLoop(events, i, keywordLower, filteredEvents) ==
    IF i > Len(events) THEN filteredEvents
    ELSE KeywordLoop(events, i + 1, keywordLower,
                     IF KeywordMatch(events[i], keywordLower)
                     THEN Append(filteredEvents, events[i])
                     ELSE filteredEvents)

\* FilterByKeyword with a loop that starts at the second event
FilterByKeywordFromSecond(h, r, keyword) ==
    IF keyword = "" THEN [heap |-> h, ret |-> r]
    ELSE LET events == KeywordLoop(h[r].Events, 2, ToLower(keyword), <<>>)
             filtered == ScrapingResult(events, Len(events), h[r].Timestamp,
                                        h[r].SourceURL, h[r].Source)
         IN  [heap |-> Append(h, filtered), ret |-> Len(h) + 1]

\* FilterByKeyword without the early return, an empty keyword matching nothing
FilterByKeywordEmptyMatchesNone(h, r, keyword) ==
    LET events == IF keyword = "" THEN <<>>
                  ELSE KeywordLoop(h[r].Events, 1, ToLower(keyword), <<>>)
        filtered == ScrapingResult(events, Len(events), h[r].Timestamp,
                                   h[r].SourceURL, h[r].Source)
    IN  [heap |-> Append(h, filtered), ret |-> Len(h) + 1]

\* r.FilterByKeyword(keyword) on heap h: the heap afterwards and the pointer
\* returned
FilterByKeyword(h, r, keyword) ==
    IF keyword = "" THEN [heap |-> h, ret |-> r]
    ELSE LET events == KeywordLoop(h[r].Events, 1, ToLower(keyword), <<>>)
             filtered == ScrapingResult(events, Len(events), h[r].Timestamp,
                                        h[r].SourceURL, h[r].Source)
         IN  [heap |-> Append(h, filtered), ret |-> Len(h) + 1]

\* InRange with a start that is excluded
InRangeAfterStart(eventDate, startDate, endDate) ==
    /\ After(eventDate, startDate)
    /\ (Before(eventDate, endDate) \/ Equal(eventDate, endDate))

\* the range test of FilterByDate
InRange(eventDate, startDate, endDate) ==
    /\ (After(eventDate, startDate) \/ Equal(eventDate, startDate))
    /\ (Before(eventDate, endDate) \/ Equal(eventDate, endDate))

\* KeepByDate dropping the events whose date cannot be parsed
KeepParsedInRange(p, startDate, endDate) == p.ok /\ InRange(p.t, startDate, endDate)

\* the test of FilterByDate's loop on p, what parseEventDate returned: an
\* event whose date cannot be parsed is included
KeepByDate(p, startDate, endDate) == ~p.ok \/ InRange(p.t, startDate, endDate)

\* the loop of FilterByDate
RECURSIVE DateLoop(_, _, _, _, _, _)
DateLoop(events, i, startDate, endDate, nowT, filteredEvents) ==
    IF i > Len(events) THEN filteredEvents
    ELSE DateLoop(events, i + 1, startDate, endDate, nowT,
                  IF KeepByDate(parseEventDate(events[i].DateTime, nowT), startDate, endDate)
                  THEN Append(filteredEvents, events[i])
                  ELSE filteredEvents)

\* FilterByDate writing the filtered events into its receiver
FilterByDateInPlace(h, r, startDate, endDate, nowT) ==
    [heap |-> [h EXCEPT ![r].Events = DateLoop(@, 1, startDate, endDate, nowT, <<>>),
                        ![r].Total = Len(DateLoop(h[r].Events, 1, startDate, endDate, nowT,
                                                  <<>>))],
     ret |-> r]

\* r.FilterByDate(startDate, endDate) on heap h, time.Now() reading nowT
FilterByDate(h, r, startDate, endDate, nowT) ==
    LET events == DateLoop(h[r].Events, 1, startDate, endDate, nowT, <<>>)
        filtered == ScrapingResult(events, Len(events), h[r].Timestamp,
                                   h[r].SourceURL, h[r].Source)
    IN  [heap |-> Append(h, filtered), ret |-> Len(h) + 1]

(***************************************************************************)
(* the team-name normalizer                                                *)
(***************************************************************************)
\* getStandardTeamMappings: the alias table, as <<alias, canonical name>>
getStandardTeamMappings == <<
    <<"real madrid", "Real Madrid">>,
    <<"real madrid cf", "Real Madrid">>,
    <<"real madrid club de fútbol", "Real Madrid">>,
    <<"rm", "Real Madrid">>,
    <<"madrid", "Real Madrid">>,
    <<"barcelona", "Barcelona">>,
    <<"fc barcelona", "Barcelona">>,
    <<"barça", "Barcelona">>,
    <<"barca", "Barcelona">>,
    <<"fcb", "Barcelona">>,
    <<"atletico madrid", "Atlético Madrid">>,
    <<"atletico de madrid", "Atlético Madrid">>,
    <<"atleti", "Atlético Madrid">>,
    <<"atm", "Atlético Madrid">>,
    <<"manchester united", "Manchester United">>,
    <<"man utd", "Manchester United">>,
    <<"manchester utd", "Manchester United">>,
    <<"man u", "Manchester United">>,
    <<"manchester united fc", "Manchester United">>,
    <<"liverpool", "Liverpool">>,
    <<"liverpool fc", "Liverpool">>,
    <<"lfc", "Liverpool">>,
    <<"juventus", "Juventus">>,
    <<"juventus fc", "Juventus">>,
    <<"juve", "Juventus">>,
    <<"villarreal", "Villarreal">>,
    <<"villarreal cf", "Villarreal">>,
    <<"getafe", "Getafe">>,
    <<"getafe cf", "Getafe">>,
    <<"valencia", "Valencia">>,
    <<"valencia cf", "Valencia">>,
    <<"sevilla", "Sevilla">>,
    <<"sevilla fc", "Sevilla">>,
    <<"athletic bilbao", "Athletic Bilbao">>,
    <<"athletic club", "Athletic Bilbao">>,
    <<"real betis", "Real Betis">>,
    <<"real sociedad", "Real Sociedad">>,
    <<"rayo vallecano", "Rayo Vallecano">>,
    <<"elche", "Elche">>,
    <<"elche cf", "Elche">>,
    <<"girona", "Girona">>,
    <<"girona fc", "Girona">>,
    <<"celta de vigo", "Celta de Vigo">>,
    <<"celta vigo", "Celta de Vigo">>,
    <<"rc celta de vigo", "Celta de Vigo">>,
    <<"deportivo alaves", "Deportivo Alavés">>,
    <<"alaves", "Deportivo Alavés">>,
    <<"ca osasuna", "CA Osasuna">>,
    <<"osasuna", "CA Osasuna">>,
    <<"levante ud", "Levante UD">>,
    <<"levante", "Levante UD">>,
    <<"mallorca", "Mallorca">>,
    <<"rcd mallorca", "Mallorca">>,
    <<"rcd espanyol", "RCD Espanyol">>,
    <<"espanyol", "RCD Espanyol">>,
    <<"oviedo", "Oviedo">>,
    <<"real oviedo", "Oviedo">>,
    <<"manchester city", "Manchester City">>,
    <<"manchester city fc", "Manchester City">>,
    <<"man city", "Manchester City">>,
    <<"as monaco", "AS Monaco">>,
    <<"monaco", "AS Monaco">>,
    <<"sl benfica", "SL Benfica">>,
    <<"benfica", "SL Benfica">>,
    <<"olympiacos fc", "Olympiacos FC">>,
    <<"olympiacos", "Olympiacos FC">>,
    <<"kairat almaty", "Kairat Almaty">>,
    <<"kairat almaty fc", "Kairat Almaty">> >>

\* a similarity score s in [0, 1] is the integer floor(s * ScoreUnit): seven
\* decimal places, the precision of the float32 the library returns
ScoreUnit == 10000000

\* NewTeamNameNormalizer: similarityThreshold 0.7
similarityThreshold == 7000000

\* floor(n / d * 10^digits) for 0 <= n < d, by long division
RECURSIVE FracDigits(_, _, _, _)
FracDigits(r, d, digits, acc) ==
    IF digits = 0 THEN acc
    ELSE FracDigits((r * 10) % d, d, digits - 1, acc * 10 + ((r * 10) \div d))

\* A similarity n / d as findBestSimilarTeam compares it: edlib returns a
\* float32, which float64(...) widens.  The float32 nearest to 7/10 is
\* 0.699999988, below the float64 threshold 0.7; every other quotient of names
\* of up to 24 characters is further from 0.7 than float32 rounding moves it.
Score(n, d) ==
    IF n >= d THEN ScoreUnit
    ELSE IF 10 * n = 7 * d THEN similarityThreshold - 1
    ELSE FracDigits(n, d, 7, 0)

\* the cost of aligning a[i] with b[k], against row prev of the edit-distance
\* table (prev[k + 1] is the distance between i - 1 characters of a and k of b)
LevBase(prev, a, b, i, k) ==
    IF k = 0 THEN i
    ELSE Min2(prev[k + 1] + 1, prev[k] + (IF Char(a, i) = Char(b, k) THEN 0 ELSE 1))

\* row i of the table, as a tuple: an entry is the cheapest of the alignments
\* of a[i] to its left, each followed by insertions
LevRow(prev, a, b, i) ==
    <<>> \o [j1 \in 1..(Len(b) + 1) |->
                MinOf({ LevBase(prev, a, b, i, k) + (j1 - 1 - k) : k \in 0..(j1 - 1) })]

RECURSIVE LevRows(_, _, _, _)
LevRows(prev, a, b, i) ==
    IF i > Len(a) THEN prev[Len(b) + 1]
    ELSE LevRows(LevRow(prev, a, b, i), a, b, i + 1)

\* edlib.LevenshteinDistance
LevenshteinDistance(a, b) == LevRows(<<>> \o [j \in 1..(Len(b) + 1) |-> j - 1], a, b, 1)

\* edlib.StringsSimilarity(a, b, edlib.Levenshtein): 1 - distance / longer length
LevenshteinSimilarity(a, b) ==
    IF Max2(Len(a), Len(b)) = 0 THEN ScoreUnit
    ELSE Score(Max2(Len(a), Len(b)) - LevenshteinDistance(a, b), Max2(Len(a), Len(b)))

\* the free characters of b that a[i] can be matched with
JaroCandidates(a, b, maxDist, i, taken) ==
    { j \in Max2(1, i - maxDist)..Min2(Len(b), i + maxDist) :
        Char(a, i) = Char(b, j) /\ j \notin taken }

\* the matching pass of edlib.JaroSimilarity: each character of a takes the
\* first free equal character of b within maxDist; the pairs <<i, j>> matched
RECURSIVE JaroMatches(_, _, _, _, _)
JaroTake(a, b, maxDist, i, pairs, cand) ==
    JaroMatches(a, b, maxDist, i + 1,
                IF cand = {} THEN pairs ELSE Append(pairs, <<i, MinOf(cand)>>))

JaroMatches(a, b, maxDist, i, pairs) ==
    IF i > Len(a) THEN pairs
    ELSE JaroTake(a, b, maxDist, i, pairs,
                  JaroCandidates(a, b, maxDist, i, { pairs[k][2] : k \in 1..Len(pairs) }))

\* the k-th smallest element of a set of integers
KthOf(S, k) == CHOOSE x \in S : Cardinality({ y \in S : y < x }) = k - 1

\* the matched characters that are out of order (twice the transpositions)
JaroOutOfOrder(a, b, pairs, js) ==
    Cardinality({ k \in 1..Len(pairs) : Char(a, pairs[k][1]) # Char(b, KthOf(js, k)) })

JaroOf(la, lb, m, t2) ==
    IF m = 0 THEN <<0, 1>>
    ELSE << 2 * m * m * lb + 2 * m * m * la + (2 * m - t2) * la * lb, 6 * m * la * lb >>

JaroOfPairs(a, b, pairs) ==
    JaroOf(Len(a), Len(b), Len(pairs),
           JaroOutOfOrder(a, b, pairs, { pairs[k][2] : k \in 1..Len(pairs) }))

\* the Jaro similarity as the fraction <<numerator, denominator>>:
\* (m / |a| + m / |b| + (m - t) / m) / 3; <<0, 1>> and <<1, 1>> are the
\* library's early returns
JaroFraction(a, b) ==
    IF Len(a) = 0 \/ Len(b) = 0 THEN <<0, 1>>
    ELSE IF a = b THEN <<1, 1>>
    ELSE JaroOfPairs(a, b, JaroMatches(a, b, (Max2(Len(a), Len(b)) \div 2) - 1, 1, <<>>))

FractionScore(f) == Score(f[1], f[2])

\* edlib.StringsSimilarity(a, b, edlib.Jaro)
JaroSimilarity(a, b) == FractionScore(JaroFraction(a, b))

\* the length of the common prefix
CommonPrefix(a, b) ==
    MaxOf({ n \in 0..Min2(Len(a), Len(b)) : SubSeq(a, 1, n) = SubSeq(b, 1, n) })

\* jaro + 0.1 * prefix * (1 - jaro) in float32: where the sum is 7/10 the
\* rounding of 0.1 * prefix leaves it at 0.70000005 for prefix 1 and 3 and at
\* 0.699999988 for prefix 2 and 4
WinklerOf(f, prefix) ==
    IF f[1] = 0 \/ f[1] = f[2] THEN Score(f[1], f[2])
    ELSE IF /\ 10 * ((10 - prefix) * f[1] + prefix * f[2]) = 7 * (10 * f[2])
            /\ prefix \in {1, 3}
         THEN similarityThreshold
         ELSE Score((10 - prefix) * f[1] + prefix * f[2], 10 * f[2])

\* edlib.StringsSimilarity(a, b, edlib.JaroWinkler):
\* jaro + 0.1 * prefix * (1 - jaro), the prefix counted up to 4
JaroWinklerSimilarity(a, b) == WinklerOf(JaroFraction(a, b), Min2(CommonPrefix(a, b), 4))

\* a word character of the regexp syntax: \b is an ASCII word boundary
IsWordChar(c) ==
    c \in CharSet("abcdefghijklmnopqrstuvwxyzABCDEFGHIJKLMNOPQRSTUVWXYZ0123456789_")

WordAt(s, i) == i >= 1 /\ i <= Len(s) /\ IsWordChar(Char(s, i))

\* \b holds between the characters i - 1 and i
WordBoundary(s, i) == WordAt(s, i - 1) # WordAt(s, i)

\* the literal lit, between two \b, starts at i
LiteralAt(s, i, lit) ==
    /\ i + Len(lit) - 1 <= Len(s)
    /\ SubSeq(s, i, i + Len(lit) - 1) = lit
    /\ WordBoundary(s, i)
    /\ WordBoundary(s, i + Len(lit))

\* the alternatives that match at i, and the positions from i on where one does
AltsAt(s, alts, i) == { k \in 1..Len(alts) : LiteralAt(s, i, alts[k]) }
MatchPositions(s, alts, i) == { p \in i..Len(s) : AltsAt(s, alts, p) # {} }

\* regexp.MustCompile(`\b(alts[1]|alts[2]|...)\b`).ReplaceAllString(s, repl):
\* leftmost match, the earlier alternative preferred, matches not overlapping
RECURSIVE ReplaceAllFrom(_, _, _, _)
ReplaceAt(s, alts, repl, i, p, lit) ==
    SubSeq(s, i, p - 1) \o repl \o ReplaceAllFrom(s, alts, repl, p + Len(lit))

ReplaceNext(s, alts, repl, i, positions) ==
    IF positions = {} THEN SubSeq(s, i, Len(s))
    ELSE ReplaceAt(s, alts, repl, i, MinOf(positions),
                   alts[MinOf(AltsAt(s, alts, MinOf(positions)))])

ReplaceAllFrom(s, alts, repl, i) == ReplaceNext(s, alts, repl, i, MatchPositions(s, alts, i))

ReplaceAllString(s, alts, repl) == ReplaceAllFrom(s, alts, repl, 1)

\* `\bvs\.?\b`: the greedy optional period is the alternative tried first
VsPattern == <<"vs.", "vs">>
\* `\bv\b`
VPattern == <<"v">>
\* `\b(fc|cf|ud|club|de fútbol|de futbol)\b`
SuffixPattern == <<"fc", "cf", "ud", "club", "de fútbol", "de futbol">>

\* strings.Split(s, sep), for a non-empty sep
RECURSIVE SplitFrom(_, _, _)
SplitNext(s, sep, start, positions) ==
    IF positions = {} THEN << SubSeq(s, start, Len(s)) >>
    ELSE << SubSeq(s, start, MinOf(positions) - 1) >>
         \o SplitFrom(s, sep, MinOf(positions) + Len(sep))

SplitFrom(s, sep, start) ==
    SplitNext(s, sep, start,
              { p \in start..(Len(s) - Len(sep) + 1) : SubSeq(s, p, p + Len(sep) - 1) = sep })

Split(s, sep) == SplitFrom(s, sep, 1)

IsLetterOrDigit(c) == IsWordChar(c) \/ c \in CharSet("áéíóúñçÁÉÍÓÚÑÇ")

\* the character strings.Title leaves at position i: a letter that follows a
\* separator is put in title case
TitleChar(s, i) ==
    IF i = 1 \/ ~IsLetterOrDigit(Char(s, i - 1)) THEN UpperChar(Char(s, i)) ELSE Char(s, i)

RECURSIVE TitleRange(_, _, _)
TitleRange(s, lo, hi) ==
    IF lo > hi THEN ""
    ELSE IF lo = hi THEN TitleChar(s, lo)
    ELSE TitleRange(s, lo, (lo + hi) \div 2) \o TitleRange(s, ((lo + hi) \div 2) + 1, hi)

\* strings.Title
Title(s) == TitleRange(s, 1, Len(s))

\* the entries of the table with the given key
MappingHits(key) ==
    { k \in 1..Len(getStandardTeamMappings) : getStandardTeamMappings[k][1] = key }

\* the score findBestSimilarTeam gives one alias: the best of the three measures
MaxScore(teamName, mappedTeam) ==
    Max2(Max2(LevenshteinSimilarity(teamName, mappedTeam), JaroSimilarity(teamName, mappedTeam)),
         JaroWinklerSimilarity(teamName, mappedTeam))

\* the score of every alias of the table
Scores(teamName) ==
    <<>> \o [k \in 1..Len(getStandardTeamMappings) |->
                MaxScore(teamName, getStandardTeamMappings[k][1])]

BestOf(score, best) ==
    IF best > 0 /\ best >= similarityThreshold
    THEN { getStandardTeamMappings[k][2] : k \in { j \in DOMAIN score : score[j] = best } }
    ELSE {""}

BestIn(score) == BestOf(score, MaxOf({ score[k] : k \in DOMAIN score }))

\* findBestSimilarTeam: the names it can return.  The table is a Go map, ranged
\* over in an order that differs from run to run: the first alias met with the
\* highest score wins, so every alias of that score can.  {""} is "no match".
findBestSimilarTeam(teamName) == BestIn(Scores(teamName))

\* NormalizeCleaned returning the key that was hit, not the name it maps to
NormalizeCleanedToKey(teamName, cleaned, direct) ==
    IF direct # {} THEN { cleaned }
    ELSE { IF bestMatch # "" THEN bestMatch ELSE Title(teamName) :
             bestMatch \in findBestSimilarTeam(cleaned) }

\* normalizeTeamName after the cleaning: the direct mapping, then the best
\* similar team, then the name as given in title case
NormalizeCleaned(teamName, cleaned, direct) ==
    IF direct # {} THEN { getStandardTeamMappings[k][2] : k \in direct }
    ELSE { IF bestMatch # "" THEN bestMatch ELSE Title(teamName) :
             bestMatch \in findBestSimilarTeam(cleaned) }

CleanTeamName(teamName) ==
    TrimSpace(ReplaceAllString(TrimSpace(ToLower(teamName)), SuffixPattern, ""))

\* normalizeTeamName: the names it can return
normalizeTeamName(teamName) ==
    NormalizeCleaned(teamName, CleanTeamName(teamName), MappingHits(CleanTeamName(teamName)))

\* the "vs" variations of normalizeEventName and normalizeDateTime
StandardizeVs(s) == ReplaceAllString(ReplaceAllString(s, VsPattern, "vs"), VPattern, "vs")

NormalizeParts(cleaned, parts) ==
    IF Len(parts) # 2 THEN {cleaned}
    ELSE { normalizedHome \o " vs " \o normalizedAway :
             normalizedHome \in normalizeTeamName(TrimSpace(parts[1])),
             normalizedAway \in normalizeTeamName(TrimSpace(parts[2])) }

NormalizeCleanedEvent(cleaned) == NormalizeParts(cleaned, Split(cleaned, "vs"))

\* normalizeEventName: the names it can return
normalizeEventName(eventName) == NormalizeCleanedEvent(StandardizeVs(TrimSpace(eventName)))

\* normalizeDateTime
normalizeDateTime(dateTime) == StandardizeVs(TrimSpace(dateTime))

\* NormalizeEvent: the events it can return
NormalizeEvent(event) ==
    { TicketEvent(normalizeDateTime(event.DateTime), name, event.Link, event.Source) :
        name \in normalizeEventName(event.Event) }

\* the loop of NormalizeScrapingResult: the contents normalized.Events can
\* have once the events from i on are stored
RECURSIVE NormalizeLoop(_, _, _)
NormalizeLoop(events, i, normalizedEvents) ==
    IF i > Len(events) THEN {normalizedEvents}
    ELSE UNION { NormalizeLoop(events, i + 1, [normalizedEvents EXCEPT ![i] = e]) :
                   e \in NormalizeEvent(events[i]) }

\* make([]TicketEvent, n)
ZeroEvents(n) == [i \in 1..n |-> TicketEvent("", "", "", "")]

\* n.NormalizeScrapingResult(result) on heap h: the outcomes it can have, each
\* the heap afterwards and the pointer returned
NormalizeScrapingResult(h, result) ==
    { [heap |-> Append(h, ScrapingResult(events, h[result].Total, h[result].Timestamp,
                                         h[result].SourceURL, h[result].Source)),
       ret |-> Len(h) + 1] :
        events \in NormalizeLoop(h[result].Events, 1, ZeroEvents(Len(h[result].Events))) }

(***************************************************************************)
(* the extractors                                                          *)
(***************************************************************************)
Nil == 0    \* the nil *ScrapingResult

HelloBaseURL == "https://www.hellotickets.com"
VividBaseURL == "https://www.vividseats.com"
Sport365BaseURL == "https://www.sport365.com"

HelloURL == "https://www.hellotickets.com/real-madrid-cf-tickets/p-598?qs=real%20mar"
VividURL == "https://www.vividseats.com/real-madrid-tickets--sports-soccer/performer/3053"
Sport365URL == "https://www.sport365.com/football/team/real-madrid/1-1973#/fixtures"

\* "Convert to full URL"
FullURL(link, baseURL) == IF ~HasPrefix(link, "http") THEN baseURL \o link ELSE link

\* parseTicketEvent: <<>> when the element has no link, else the one event
parseTicketEvent(e) ==
    IF e.href = "" THEN <<>>
    ELSE << TicketEvent(TrimSpace(e.dateMonth) \o " " \o TrimSpace(e.day) \o " "
                            \o TrimSpace(e.timeStr),
                        TrimSpace(e.name), FullURL(e.href, HelloBaseURL), "hellotickets") >>

\* strings.Fields: the maximal runs of characters that are not white space
FieldStarts(s) == { i \in NonSpace(s) : i - 1 \notin NonSpace(s) }
FieldEnds(s) == { i \in NonSpace(s) : i + 1 \notin NonSpace(s) }
Fields(s) ==
    <<>> \o [k \in 1..Cardinality(FieldStarts(s)) |->
                SubSeq(s, KthOf(FieldStarts(s), k), KthOf(FieldEnds(s), k))]

YearStrings == {"2025", "2026", "2027", "2028", "2029", "2030"}

\* the positions of dayPart, from its last four characters backwards, where
\* one of the years starts
YearStarts(dayPart) ==
    { i \in 1..(Len(dayPart) - 3) : SubSeq(dayPart, i, i + 3) \in YearStrings }

SplitYear(dateStr, parts, starts) ==
    IF starts = {} THEN dateStr
    ELSE parts[1] \o " " \o SubSeq(parts[2], 1, MaxOf(starts) - 1) \o " "
         \o SubSeq(parts[2], MaxOf(starts), MaxOf(starts) + 3)

FormatParts(dateStr, parts) ==
    IF Len(parts) >= 2 /\ Len(parts[2]) >= 5
    THEN SplitYear(dateStr, parts, YearStarts(parts[2]))
    ELSE dateStr

\* formatDateWithYear: "Jan 182026" becomes "Jan 18 2026"
formatDateWithYear(dateStr) == FormatParts(dateStr, Fields(dateStr))

\* parseVividSeatsTicketEvent
parseVividSeatsTicketEvent(e) ==
    IF e.href = "" THEN <<>>
    ELSE << TicketEvent(formatDateWithYear(TrimSpace(e.dateMonth)) \o " " \o TrimSpace(e.day)
                            \o " " \o TrimSpace(e.timeStr),
                        TrimSpace(e.name), FullURL(e.href, VividBaseURL), "vividseats") >>

\* parseSport365SelectionEvent without the check of the link
parseSport365AnyLink(sel) ==
    << TicketEvent(TrimSpace(sel.date),
                   TrimSpace(sel.homeTeam) \o " vs. " \o TrimSpace(sel.awayTeam),
                   FullURL(sel.href, Sport365BaseURL), "sport365") >>

\* parseSport365SelectionEvent
parseSport365SelectionEvent(sel) ==
    IF sel.href = "" THEN <<>>
    ELSE << TicketEvent(TrimSpace(sel.date),
                        TrimSpace(sel.homeTeam) \o " vs. " \o TrimSpace(sel.awayTeam),
                        FullURL(sel.href, Sport365BaseURL), "sport365") >>

\* the extractor of a source applied to one element of its page
ParseElement(source, e) ==
    CASE source = "hellotickets" -> parseTicketEvent(e)
      [] source = "vividseats" -> parseVividSeatsTicketEvent(e)
      [] source = "sport365" -> parseSport365SelectionEvent(e)

(***************************************************************************)
(* colly collectors and the three scrapes.  A scrape is split where it     *)
(* waits for the network: Begin... up to the fetch, End... from its return. *)
(***************************************************************************)
\* colly.NewCollector: no callback registered, no URL visited
NewCollector == [callbacks |-> <<>>, visited |-> {}]

\* NewScraper handing out the collector of the server's own scraper
SharedScraper(cs) == [collectors |-> cs, c |-> 1]

\* NewScraper on the collectors cs: the collectors afterwards and the
\* collector of the new scraper
NewScraper(cs) == [collectors |-> Append(cs, NewCollector), c |-> Len(cs) + 1]

\* NewVividSeatsScraper
NewVividSeatsScraper(cs) == [collectors |-> Append(cs, NewCollector), c |-> Len(cs) + 1]

\* c.OnHTML(selector, f), f closing over the result it appends to
RegisterOnHTML(cs, c, source, result) ==
    [cs EXCEPT ![c].callbacks = Append(@, [source |-> source, result |-> result])]

\* c.Visit(url) up to the fetch: a collector refuses a URL it has visited
MarkVisited(cs, c, url) == [cs EXCEPT ![c].visited = @ \cup {url}]

\* ScrapeRealMadridTickets / ScrapeVividSeatsRealMadridTickets up to the fetch
\* of Visit, s being the scraper NewScraper made
BeginVisit(h, s, source, url, nowT) ==
    [heap |-> Append(h, ScrapingResult(<<>>, 0, nowT, url, source)),
     collectors |-> MarkVisited(RegisterOnHTML(s.collectors, s.c, source, Len(h) + 1), s.c, url),
     c |-> s.c, result |-> Len(h) + 1, blocked |-> url \in s.collectors[s.c].visited]

\* ScrapeSport365RealMadridMatches up to chromedp.Run
BeginSport365(h, cs, nowT) ==
    [heap |-> Append(h, ScrapingResult(<<>>, 0, nowT, Sport365URL, "sport365")),
     collectors |-> cs, c |-> 0, result |-> Len(h) + 1, blocked |-> FALSE]

BeginScrape(source, h, cs, nowT) ==
    CASE source = "hellotickets" -> BeginVisit(h, NewScraper(cs), source, HelloURL, nowT)
      [] source = "vividseats" -> BeginVisit(h, NewVividSeatsScraper(cs), source, VividURL, nowT)
      [] source = "sport365" -> BeginSport365(h, cs, nowT)

\* result.Events = append(result.Events, *event), if the element gave one
AppendEvents(h, result, events) == [h EXCEPT ![result].Events = @ \o events]

\* the fetched page handed to the callbacks of the collector: every element,
\* in page order, goes to every registered callback, in registration order
RECURSIVE OnHTML(_, _, _, _, _)
OnHTML(h, callbacks, page, i, k) ==
    IF i > Len(page) THEN h
    ELSE IF k > Len(callbacks) THEN OnHTML(h, callbacks, page, i + 1, 1)
    ELSE OnHTML(AppendEvents(h, callbacks[k].result,
                             ParseElement(callbacks[k].source, page[i])),
                callbacks, page, i, k + 1)

\* doc.Find("a.match-row").Each(...)
RECURSIVE Each(_, _, _, _)
Each(h, result, page, i) ==
    IF i > Len(page) THEN h
    ELSE Each(AppendEvents(h, result, parseSport365SelectionEvent(page[i])),
              result, page, i + 1)

\* a scrape that leaves Total as it was made
SetTotalSkipped(h, result) == h

\* result.Total = len(result.Events)
SetTotal(h, result) == [h EXCEPT ![result].Total = Len(h[result].Events)]

\* the colly scrapes from the return of Visit: nil and an error when the
\* visit failed
EndVisit(h, cs, b, outcome) ==
    IF b.blocked \/ ~outcome.ok
    THEN [heap |-> h, ret |-> Nil, err |-> TRUE]
    ELSE [heap |-> SetTotal(OnHTML(h, cs[b.c].callbacks, outcome.page, 1, 1), b.result),
          ret |-> b.result, err |-> FALSE]

\* ScrapeSport365RealMadridMatches from the return of chromedp.Run: the
\* result and an error when the run failed
EndSport365(h, b, outcome) ==
    IF ~outcome.ok
    THEN [heap |-> h, ret |-> b.result, err |-> TRUE]
    ELSE [heap |-> SetTotal(Each(h, b.result, outcome.page, 1), b.result),
          ret |-> b.result, err |-> FALSE]

EndScrape(source, h, cs, b, outcome) ==
    IF source = "sport365" THEN EndSport365(h, b, outcome) ELSE EndVisit(h, cs, b, outcome)

EndOf(source, b, outcome) == EndScrape(source, b.heap, b.collectors, b, outcome)

(***************************************************************************)
(* handleScrape                                                            *)
(***************************************************************************)
\* the default taken for every source that is not a known one
DefaultUnknown(source) ==
    IF source \notin {"hellotickets", "vividseats", "sport365", "all"}
    THEN "hellotickets" ELSE source

\* source := query.Get("source"); if source == "" { source = "hellotickets" }
DefaultSource(source) == IF source = "" THEN "hellotickets" ELSE source

\* the cases of the switch that run one scraper
SingleSources == {"hellotickets", "vividseats", "sport365"}

\* the case of the switch a source takes
SwitchCase(source) ==
    IF source \in SingleSources THEN "single"
    ELSE IF source = "all" THEN "all"
    ELSE "default"

\* the test of line 94 with || for &&
AnyFailed(err1, err2, err3) == err1 \/ err2 \/ err3

\* err1 != nil && err2 != nil && err3 != nil
AllFailed(err1, err2, err3) == err1 /\ err2 /\ err3

\* if xResult != nil { result.Events = append(result.Events, xResult.Events...) }
EventsOf(h, result) == IF result # Nil THEN h[result].Events ELSE <<>>

MergedEvents(h, helloResult, vividResult, sportResult) ==
    EventsOf(h, helloResult) \o EventsOf(h, vividResult) \o EventsOf(h, sportResult)

Merged(events, nowT) == ScrapingResult(events, Len(events), nowT, "multiple_sources", "all")

\* "Combine results": the heap with the combined result as its last object
MergeResults(h, helloResult, vividResult, sportResult, nowT) ==
    Append(h, Merged(MergedEvents(h, helloResult, vividResult, sportResult), nowT))

\* time.Parse("2006-01-02", value)
ParseDateParam(value) == TimeParse("2006-01-02", value)

StatusOK == 200
StatusBadRequest == 400
StatusInternalServerError == 500

NoTime == Time(0, 0, 0, 0, 0)
NoBody == ScrapingResult(<<>>, 0, NoTime, "", "")
NoResponse == [status |-> 0, error |-> "", body |-> NoBody]

\* http.Error(w, message, code)
HttpError(message, code) == [status |-> code, error |-> message, body |-> NoBody]

\* json.NewEncoder(w).Encode(result)
Encode(h, result) == [status |-> StatusOK, error |-> "", body |-> h[result]]

NoLocals ==
    [source |-> "", result |-> Nil, err |-> FALSE,
     helloResult |-> Nil, err1 |-> FALSE, vividResult |-> Nil, err2 |-> FALSE,
     sportResult |-> Nil, err3 |-> FALSE,
     c |-> 0, pending |-> Nil, blocked |-> FALSE]

NoFetch == [done |-> FALSE, ok |-> FALSE, page |-> <<>>]
Fetch(outcome) == [done |-> TRUE, ok |-> outcome.ok, page |-> outcome.page]

\* who has written the objects of a heap: the writers of before, and r for
\* every object that is new or differs
Written(r, old, new, w) ==
    [p \in DOMAIN new |->
        IF p \in DOMAIN old
        THEN (IF new[p] = old[p] THEN w[p] ELSE w[p] \cup {r})
        ELSE {r}]

vars == <<heap, now, calls, collectors, web, req, pc, loc, resp, work, fetched, writers>>

\* one step of the handler of request r
Step(r, h2, cs2, l2, pc2, resp2, w2, f2) ==
    /\ heap' = h2
    /\ collectors' = cs2
    /\ loc' = [loc EXCEPT ![r] = l2]
    /\ pc' = [pc EXCEPT ![r] = pc2]
    /\ resp' = [resp EXCEPT ![r] = resp2]
    /\ work' = [work EXCEPT ![r] = w2]
    /\ fetched' = [fetched EXCEPT ![r] = f2]
    /\ writers' = [heap |-> Written(r, heap, h2, writers.heap),
                   coll |-> Written(r, collectors, cs2, writers.coll)]
    /\ UNCHANGED <<now, calls, web, req>>

\* the handler starts the scrape of a source: b is the scrape up to its fetch
Started(r, source, b, pc2) ==
    Step(r, b.heap, b.collectors,
         [loc[r] EXCEPT !.source = DefaultSource(req[r].source),
                        !.c = b.c, !.pending = b.result, !.blocked = b.blocked],
         pc2, resp[r], Append(work[r], "scrape:" \o source), fetched[r])

\* lines 60-92: the query is read and the switch entered, up to the first fetch
HandleScrape(r) ==
    /\ pc[r] = "start"
    /\ \/ /\ SwitchCase(DefaultSource(req[r].source)) = "single"
          /\ Started(r, DefaultSource(req[r].source),
                     BeginScrape(DefaultSource(req[r].source), heap, collectors, now), "scrape")
       \/ /\ SwitchCase(DefaultSource(req[r].source)) = "all"
          /\ Started(r, "hellotickets", BeginScrape("hellotickets", heap, collectors, now),
                     "hello")
       \/ /\ SwitchCase(DefaultSource(req[r].source)) = "default"
          /\ Step(r, heap, collectors, [loc[r] EXCEPT !.source = req[r].source], "done",
                  HttpError("Invalid source. Use: hellotickets, vividseats, sport365, or all",
                            StatusBadRequest),
                  work[r], fetched[r])

\* the scrape the handler of r waits for
Pending(r) == [c |-> loc[r].c, result |-> loc[r].pending, blocked |-> loc[r].blocked]

\* e is a scrape from its fetch on, b the next scrape up to its fetch
SingleReturned(r, outcome, e) ==
    Step(r, e.heap, collectors, [loc[r] EXCEPT !.result = e.ret, !.err = e.err],
         "checkErr", resp[r], work[r], [fetched[r] EXCEPT ![loc[r].source] = Fetch(outcome)])

HelloReturned(r, outcome, e, b) ==
    Step(r, b.heap, b.collectors,
         [loc[r] EXCEPT !.helloResult = e.ret, !.err1 = e.err,
                        !.c = b.c, !.pending = b.result, !.blocked = b.blocked],
         "vivid", resp[r], Append(work[r], "scrape:vividseats"),
         [fetched[r] EXCEPT !["hellotickets"] = Fetch(outcome)])

VividReturned(r, outcome, e, b) ==
    Step(r, b.heap, b.collectors,
         [loc[r] EXCEPT !.vividResult = e.ret, !.err2 = e.err,
                        !.c = b.c, !.pending = b.result, !.blocked = b.blocked],
         "sport", resp[r], Append(work[r], "scrape:sport365"),
         [fetched[r] EXCEPT !["vividseats"] = Fetch(outcome)])

SportReturned(r, outcome, e) ==
    Step(r, e.heap, collectors, [loc[r] EXCEPT !.sportResult = e.ret, !.err3 = e.err],
         "merge", resp[r], work[r], [fetched[r] EXCEPT !["sport365"] = Fetch(outcome)])

\* lines 83, 85, 87: the scrape of the one source returns
ScrapeReturns(r) ==
    /\ pc[r] = "scrape"
    /\ \E outcome \in web[loc[r].source] :
          SingleReturned(r, outcome,
                         EndScrape(loc[r].source, heap, collectors, Pending(r), outcome))

\* line 90 returns and line 91 runs up to its fetch
HelloReturns(r) ==
    /\ pc[r] = "hello"
    /\ \E outcome \in web["hellotickets"] :
          HelloReturned(r, outcome,
                        EndScrape("hellotickets", heap, collectors, Pending(r), outcome),
                        BeginScrape("vividseats",
                                    EndScrape("hellotickets", heap, collectors, Pending(r),
                                              outcome).heap,
                                    collectors, now))

\* line 91 returns and line 92 runs up to its fetch
VividReturns(r) ==
    /\ pc[r] = "vivid"
    /\ \E outcome \in web["vividseats"] :
          VividReturned(r, outcome,
                        EndScrape("vividseats", heap, collectors, Pending(r), outcome),
                        BeginScrape("sport365",
                                    EndScrape("vividseats", heap, collectors, Pending(r),
                                              outcome).heap,
                                    collectors, now))

\* line 92 returns
SportReturns(r) ==
    /\ pc[r] = "sport"
    /\ \E outcome \in web["sport365"] :
          SportReturned(r, outcome,
                        EndScrape("sport365", heap, collectors, Pending(r), outcome))

\* lines 94-116
Merge(r) ==
    /\ pc[r] = "merge"
    /\ IF AllFailed(loc[r].err1, loc[r].err2, loc[r].err3)
       THEN Step(r, heap, collectors, loc[r], "done",
                 HttpError("Failed to scrape from all sources", StatusInternalServerError),
                 work[r], fetched[r])
       ELSE Step(r, MergeResults(heap, loc[r].helloResult, loc[r].vividResult,
                                 loc[r].sportResult, now),
                 collectors, [loc[r] EXCEPT !.result = Len(heap) + 1], "checkErr",
                 resp[r], Append(work[r], "merge"), fetched[r])

\* lines 122-125
CheckErr(r) ==
    /\ pc[r] = "checkErr"
    /\ IF loc[r].err
       THEN Step(r, heap, collectors, loc[r], "done",
                 HttpError("Scraping failed", StatusInternalServerError), work[r], fetched[r])
       ELSE Step(r, heap, collectors, loc[r], "normalize", resp[r], work[r], fetched[r])

\* the handler goes on with the result o.ret on the heap o.heap
Applied(r, o, pc2, what) ==
    Step(r, o.heap, collectors, [loc[r] EXCEPT !.result = o.ret], pc2, resp[r],
         Append(work[r], what), fetched[r])

\* the keyword filter of lines 133-136 placed before the normalization
NormalizeAfterFilter(r) ==
    /\ pc[r] = "normalize"
    /\ \E o \in (IF req[r].normalize = "true"
                  THEN NormalizeScrapingResult(
                           FilterByKeyword(heap, loc[r].result, req[r].filter).heap,
                           FilterByKeyword(heap, loc[r].result, req[r].filter).ret)
                  ELSE { FilterByKeyword(heap, loc[r].result, req[r].filter) }) :
          Step(r, o.heap, collectors, [loc[r] EXCEPT !.result = o.ret], "dates", resp[r],
               work[r] \o (IF req[r].filter # "" THEN <<"filterByKeyword">> ELSE <<>>)
                       \o (IF req[r].normalize = "true" THEN <<"normalize">> ELSE <<>>),
               fetched[r])

\* lines 127-131
Normalize(r) ==
    /\ pc[r] = "normalize"
    /\ IF req[r].normalize = "true"
       THEN \E o \in NormalizeScrapingResult(heap, loc[r].result) :
                Applied(r, o, "filter", "normalize")
       ELSE Step(r, heap, collectors, loc[r], "filter", resp[r], work[r], fetched[r])

\* lines 133-136
Filter(r) ==
    /\ pc[r] = "filter"
    /\ IF req[r].filter # ""
       THEN Applied(r, FilterByKeyword(heap, loc[r].result, req[r].filter), "dates",
                    "filterByKeyword")
       ELSE Step(r, heap, collectors, loc[r], "dates", resp[r], work[r], fetched[r])

\* lines 142-150 and 152-160: the bounds of the range
StartDate(dateFrom, nowT) ==
    IF dateFrom # "" THEN ParseDateParam(dateFrom).t ELSE AddYears(nowT, -1)

\* EndDate with the to day counted up to its last minute
EndDateEndOfDay(dateTo, nowT) ==
    IF dateTo # ""
    THEN [ParseDateParam(dateTo).t EXCEPT !.hour = 23, !.min = 59]
    ELSE AddYears(nowT, 2)

EndDate(dateTo, nowT) ==
    IF dateTo # "" THEN ParseDateParam(dateTo).t ELSE AddYears(nowT, 2)

\* the parseErr != nil tests of lines 144 and 154
InvalidFrom(dateFrom) == dateFrom # "" /\ ~ParseDateParam(dateFrom).ok
InvalidTo(dateTo) == dateTo # "" /\ ~ParseDateParam(dateTo).ok

\* lines 138-163
Dates(r) ==
    /\ pc[r] = "dates"
    /\ IF req[r].from = "" /\ req[r].to = ""
       THEN Step(r, heap, collectors, loc[r], "respond", resp[r], work[r], fetched[r])
       ELSE IF InvalidFrom(req[r].from)
       THEN Step(r, heap, collectors, loc[r], "done",
                 HttpError("Invalid from date", StatusBadRequest), work[r], fetched[r])
       ELSE IF InvalidTo(req[r].to)
       THEN Step(r, heap, collectors, loc[r], "done",
                 HttpError("Invalid to date", StatusBadRequest), work[r], fetched[r])
       ELSE Applied(r, FilterByDate(heap, loc[r].result, StartDate(req[r].from, now),
                                    EndDate(req[r].to, now), now),
                    "respond", "filterByDate")

\* line 166
Respond(r) ==
    /\ pc[r] = "respond"
    /\ Step(r, heap, collectors, loc[r], "done", Encode(heap, loc[r].result),
            Append(work[r], "respond"), fetched[r])

(***************************************************************************)
(* the web and the requests                                                *)
(***************************************************************************)
\* the elements a page of a source is made of: one with all its fields and
\* one with no link
Elements(source) ==
    CASE source = "hellotickets" ->
            { [href |-> "/e/1", dateMonth |-> " 27 Sep ", day |-> "Sat", timeStr |-> "4:15pm",
               name |-> " Atletico de Madrid vs. Real Madrid CF "],
              [href |-> "", dateMonth |-> "4 Oct", day |-> "Sat", timeStr |-> "9:00pm",
               name |-> "Real Madrid vs. Villarreal"] }
      [] source = "vividseats" ->
            { [href |-> "https://www.vividseats.com/e/2", day |-> "Sun",
               dateMonth |-> "Jan 182026", timeStr |-> "3:00pm",
               name |-> "Real Madrid v FC Barcelona"],
              [href |-> "", day |-> "Sat", dateMonth |-> "Feb 72026", timeStr |-> "",
               name |-> "Valencia CF v Real Madrid"] }
      [] source = "sport365" ->
            { [href |-> "/e/3", date |-> "27 Sep 2025", homeTeam |-> "Getafe CF",
               awayTeam |-> "Sevilla"],
              [href |-> "", date |-> "", homeTeam |-> "Real Madrid", awayTeam |-> ""] }

MaxElems == 1      \* the most elements a page has
MaxInFlight == 2   \* the requests in flight together
MaxCalls == 2      \* the most library calls made on one result

RECURSIVE SeqsUpTo(_, _)
SeqsUpTo(S, n) ==
    IF n = 0 THEN {<<>>}
    ELSE LET shorter == SeqsUpTo(S, n - 1)
         IN  shorter \cup { Append(q, x) : q \in { p \in shorter : Len(p) = n - 1 }, x \in S }

Failed == [ok |-> FALSE, page |-> <<>>]
Page(page) == [ok |-> TRUE, page |-> page]

\* every answer a site can give: no page, or a page of up to MaxElems
\* elements; chromedp.WaitVisible("a.match-row") lets the Sport365 run succeed
\* only on a page that has a row
AnyWeb ==
    [source \in SingleSources |->
        {Failed} \cup { Page(p) : p \in { q \in SeqsUpTo(Elements(source), MaxElems) :
                                            source = "sport365" => q # <<>> } }]

\* a site that is down, or serves its one full element
SmallWeb ==
    [source \in SingleSources |->
        {Failed} \cup { Page(<<e>>) : e \in { x \in Elements(source) : x.href # "" } }]

Sources == {"", "hellotickets", "vividseats", "sport365", "all", "ticketmaster"}
Keywords == {"", "MADRID", "Sep", "vividseats"}

Params ==
    [source : Sources, normalize : {"", "true"}, filter : {"", "MADRID", "CF"},
     from : {"", "2025-09-27", "2025-02-30"}, to : {"", "2025-09-27", "27/09/2025"}]

ConcParams ==
    [source : {"hellotickets", "sport365", "all"}, normalize : {""}, filter : {"", "MADRID"},
     from : {""}, to : {""}]

\* requests in flight together, at most one of them for all the sources
ConcRequests ==
    { rs \in [1..MaxInFlight -> ConcParams] :
        Cardinality({ r \in DOMAIN rs : rs[r].source = "all" }) <= 1 }

Nows == { Time(2025, 9, 25, 12, 0), Time(2025, 12, 30, 9, 30) }

\* the server as NewWebServer leaves it (its own scraper holds collector 1),
\* with the requests rs about to be handled
Serving(rs, sites) ==
    /\ now = Time(2025, 9, 25, 12, 0)
    /\ heap = <<>>
    /\ calls = <<>>
    /\ collectors = <<NewCollector>>
    /\ web = sites
    /\ req = rs
    /\ pc = [r \in DOMAIN rs |-> "start"]
    /\ loc = [r \in DOMAIN rs |-> NoLocals]
    /\ resp = [r \in DOMAIN rs |-> NoResponse]
    /\ work = [r \in DOMAIN rs |-> <<>>]
    /\ fetched = [r \in DOMAIN rs |-> [source \in SingleSources |-> NoFetch]]
    /\ writers = [heap |-> <<>>, coll |-> <<{}>>]

Init == \E rs \in [1..1 -> Params] : Serving(rs, AnyWeb)

InitConc == \E rs \in ConcRequests : Serving(rs, SmallWeb)

Next ==
    \/ \E r \in DOMAIN pc : HandleScrape(r)
    \/ \E r \in DOMAIN pc : ScrapeReturns(r)
    \/ \E r \in DOMAIN pc : HelloReturns(r)
    \/ \E r \in DOMAIN pc : VividReturns(r)
    \/ \E r \in DOMAIN pc : SportReturns(r)
    \/ \E r \in DOMAIN pc : Merge(r)
    \/ \E r \in DOMAIN pc : CheckErr(r)
    \/ \E r \in DOMAIN pc : Normalize(r)
    \/ \E r \in DOMAIN pc : Filter(r)
    \/ \E r \in DOMAIN pc : Dates(r)
    \/ \E r \in DOMAIN pc : Respond(r)

\* one request at a time
Spec == Init /\ [][Next]_vars

\* requests in flight together
SpecConc == InitConc /\ [][Next]_vars

(***************************************************************************)
(* Library runs: a ScrapingResult as a scrape or the handler's merge       *)
(* returns it, and the filters and the normalizer applied to it one after  *)
(* another.                                                                *)
(***************************************************************************)
\* a scrape run to its end on heap h
Finished(b, e) == [heap |-> e.heap, collectors |-> b.collectors, ret |-> e.ret, err |-> e.err]
ScrapeOf(source, b, outcome) == Finished(b, EndOf(source, b, outcome))
ScrapeOn(source, h, cs, outcome, nowT) ==
    ScrapeOf(source, BeginScrape(source, h, cs, nowT), outcome)

\* lines 90-116 run to their end: s1, s2, s3 are the three scrapes
Combined(s1, s2, s3, nowT) ==
    IF AllFailed(s1.err, s2.err, s3.err)
    THEN [heap |-> s3.heap, collectors |-> s3.collectors, ret |-> Nil, err |-> TRUE]
    ELSE [heap |-> MergeResults(s3.heap, s1.ret, s2.ret, s3.ret, nowT),
          collectors |-> s3.collectors, ret |-> Len(s3.heap) + 1, err |-> FALSE]

ThenSport(s1, s2, o3, nowT) ==
    Combined(s1, s2, ScrapeOn("sport365", s2.heap, s2.collectors, o3, nowT), nowT)

ThenVivid(s1, o2, o3, nowT) ==
    ThenSport(s1, ScrapeOn("vividseats", s1.heap, s1.collectors, o2, nowT), o3, nowT)

ScrapeAll(o1, o2, o3, nowT) ==
    ThenVivid(ScrapeOn("hellotickets", <<>>, <<>>, o1, nowT), o2, o3, nowT)

Call(op, recv, in, keyword, startDate, endDate, ret, err) ==
    [op |-> op, recv |-> recv, in |-> in, keyword |-> keyword,
     startDate |-> startDate, endDate |-> endDate, ret |-> ret, err |-> err]

\* the result the next library call is made on
Cur == calls[Len(calls)].ret

\* the library starts from a result that was returned
Given(source, s) ==
    /\ s.ret # Nil
    /\ heap = s.heap
    /\ collectors = s.collectors
    /\ calls = << Call(source, Nil, NoBody, "", NoTime, NoTime, s.ret, s.err) >>

RangeDates == { Time(2025, 9, 27, 0, 0), Time(2025, 9, 27, 16, 15) }

InitLib ==
    /\ now \in Nows
    /\ web = AnyWeb
    /\ \/ \E source \in SingleSources : \E outcome \in web[source] :
              Given(source, ScrapeOn(source, <<>>, <<>>, outcome, now))
       \/ \E o1 \in web["hellotickets"], o2 \in web["vividseats"], o3 \in web["sport365"] :
              Given("all", ScrapeAll(o1, o2, o3, now))
    /\ req = <<>> /\ pc = <<>> /\ loc = <<>> /\ resp = <<>> /\ work = <<>> /\ fetched = <<>>
    /\ writers = [heap |-> <<>>, coll |-> <<>>]

Called(o, op, keyword, startDate, endDate) ==
    /\ heap' = o.heap
    /\ calls' = Append(calls, Call(op, Cur, heap[Cur], keyword, startDate, endDate, o.ret, FALSE))
    /\ UNCHANGED <<now, collectors, web, req, pc, loc, resp, work, fetched, writers>>

LibFilterByKeyword ==
    /\ Len(calls) <= MaxCalls
    /\ \E keyword \in Keywords :
          Called(FilterByKeyword(heap, Cur, keyword), "FilterByKeyword", keyword, NoTime, NoTime)

LibFilterByDate ==
    /\ Len(calls) <= MaxCalls
    /\ \E startDate \in RangeDates, endDate \in RangeDates :
          Called(FilterByDate(heap, Cur, startDate, endDate, now), "FilterByDate", "",
                 startDate, endDate)

LibNormalize ==
    /\ Len(calls) <= MaxCalls
    /\ \E o \in NormalizeScrapingResult(heap, Cur) :
          Called(o, "NormalizeScrapingResult", "", NoTime, NoTime)

NextLib == LibFilterByKeyword \/ LibFilterByDate \/ LibNormalize

SpecLib == InitLib /\ [][NextLib]_vars

(***************************************************************************)
(* Single applications of parseEventDate and of the normalizer's name      *)
(* functions: `calls` holds the last application, its argument in `in` and  *)
(* what it returned in `ret`.                                              *)
(***************************************************************************)
\* the clock at the time of the application
PureNows ==
    { Time(2025, 9, 25, 12, 0), Time(2025, 12, 30, 9, 30), Time(2026, 1, 1, 0, 0),
      Time(2027, 3, 1, 18, 0), Time(2028, 2, 29, 8, 0) }

\* DateTime texts as the extractors build them, with and without a year
DateTexts ==
    { "27 Sep Sat 4:15pm", "Sep 25 Thu 9:00am", "24 Sep", "Sep 26", "29 Feb",
      "Feb 29 Tue 8:00pm", "28 Feb", "01 Mar", "31 Dec", "Jan 01", "30 Dec Tue 9:30am",
      "27 Sep 2025", "Jan 18 2026", "2025-09-27", "27/09/2025", "Sat 27 Sep", "" }

\* team names as the extractors and event names give them
TeamNames ==
    { "Real Madrid CF", "madrid", "FC Barcelona", " Sevilla FC ", "Levante UD",
      "Real Madrd", "Athletic Club", "rcd", "Paris", "Cadiz", "PSV", "zzyxx UNITED" }

\* the two teams of a match and the ways the separator is written
TeamPairs ==
    { <<"Real Madrid CF", "FC Barcelona">>, <<"Getafe CF", "Sevilla">>, <<"PSV", "Ajax">> }
Separators == { " vs ", " vs. ", " VS ", " Vs. " }

\* event names: matches, and names that are not one match
EventNames ==
    { pair[1] \o sep \o pair[2] : pair \in TeamPairs, sep \in Separators }
    \cup { "Real Madrid", " Bernabeu Stadium Tour ", "Real Madrid vs Barcelona vs Sevilla",
            "Getafe v Sevilla v Elche", "Sevilla v Levski Sofia" }

\* an element that has its link and none of its texts
BareElement(source) ==
    CASE source = "hellotickets" ->
            [href |-> "/e/7", dateMonth |-> "", day |-> "", timeStr |-> "", name |-> ""]
      [] source = "vividseats" ->
            [href |-> "/e/8", day |-> "", dateMonth |-> "", timeStr |-> "", name |-> ""]
      [] source = "sport365" ->
            [href |-> "/e/9", date |-> "", homeTeam |-> "", awayTeam |-> ""]

MaxPageElems == 3   \* the most elements of a page that is scraped alone

\* the pages a site can serve; chromedp.WaitVisible("a.match-row") lets the
\* Sport365 run succeed only on a page that has a row
Pages(source) ==
    { p \in SeqsUpTo(Elements(source) \cup {BareElement(source)}, MaxPageElems) :
        source = "sport365" => p # <<>> }

Application(op, in, ret) ==
    /\ calls' = << Call(op, Nil, in, "", NoTime, NoTime, ret, FALSE) >>
    /\ UNCHANGED <<heap, now, collectors, web, req, pc, loc, resp, work, fetched, writers>>

ApplyParseEventDate ==
    \E dateTimeStr \in DateTexts :
        Application("parseEventDate", dateTimeStr, parseEventDate(dateTimeStr, now))

ApplyNormalizeTeamName ==
    \E teamName \in TeamNames : \E normalized \in normalizeTeamName(teamName) :
        Application("normalizeTeamName", teamName, normalized)

ApplyNormalizeEventName ==
    \E eventName \in EventNames : \E normalized \in normalizeEventName(eventName) :
        Application("normalizeEventName", eventName, normalized)

\* one scrape of a source by a scraper made for it, the page being served
Scraped(source, page, s) ==
    Application(source, page, [result |-> s.heap[s.ret], err |-> s.err])

ApplyScrape ==
    \E source \in SingleSources : \E page \in Pages(source) :
        Scraped(source, page, ScrapeOn(source, <<>>, <<>>, Page(page), now))

InitPure ==
    /\ now \in PureNows
    /\ web = AnyWeb
    /\ heap = <<>> /\ collectors = <<>> /\ calls = <<>>
    /\ req = <<>> /\ pc = <<>> /\ loc = <<>> /\ resp = <<>> /\ work = <<>> /\ fetched = <<>>
    /\ writers = [heap |-> <<>>, coll |-> <<>>]

NextPure ==
    \/ ApplyParseEventDate
    \/ ApplyNormalizeTeamName
    \/ ApplyNormalizeEventName
    \/ ApplyScrape

SpecPure == InitPure /\ [][NextPure]_vars

\* the last application is one of op
Last(op) == calls # <<>> /\ calls[1].op = op

(***************************************************************************)
(* Properties of single applications (SpecPure)                            *)
(***************************************************************************)
\* the formats that carry no year
YearlessFormats == { k \in 1..Len(formats) : ~Contains(formats[k], "2006") }

\* the month and day the text was parsed to, before the year is inferred
ParsedMonthDay(dateTimeStr) ==
    TimeParse(formats[MinOf(MatchingFormats(dateTimeStr))], dateTimeStr).t

\* month m, day d is before today
AlreadyPast(m, d) == m < now.month \/ (m = now.month /\ d < now.day)

\* C12: a date parsed by a format that omits the year keeps its month and day
\* and is in the current year when that month/day is today or later, in the
\* next year when it is already past; it is never before today
C12_YearInferred ==
    (/\ Last("parseEventDate")
     /\ calls[1].ret.ok
     /\ MinOf(MatchingFormats(calls[1].in)) \in YearlessFormats)
    => LET p == ParsedMonthDay(calls[1].in)
           t == calls[1].ret.t
       IN  /\ t.month = p.month
           /\ t.day = p.day
           /\ t.year = IF AlreadyPast(p.month, p.day) THEN now.year + 1 ELSE now.year
           /\ ~Before(Time(t.year, t.month, t.day, 0, 0),
                      Time(now.year, now.month, now.day, 0, 0))

\* a similarity as the exact fraction <<numerator, denominator>>
\* a / b <= c / d for positive b and d, by the quotients and then the
\* remainders, as products of the terms pass 2^31
RECURSIVE QuotientLeq(_, _, _, _)
QuotientLeq(a, b, c, d) ==
    IF a \div b # c \div d THEN a \div b < c \div d
    ELSE IF a % b = 0 THEN TRUE
    ELSE IF c % d = 0 THEN FALSE
    ELSE QuotientLeq(d, c % d, b, a % b)

FracLeq(f, g) == QuotientLeq(f[1], f[2], g[1], g[2])
FracMax(f, g) == IF FracLeq(f, g) THEN g ELSE f

LevenshteinFraction(a, b) ==
    IF Max2(Len(a), Len(b)) = 0 THEN <<1, 1>>
    ELSE << Max2(Len(a), Len(b)) - LevenshteinDistance(a, b), Max2(Len(a), Len(b)) >>

WinklerFraction(f, prefix) ==
    IF f[1] = 0 \/ f[1] = f[2] THEN f
    ELSE << (10 - prefix) * f[1] + prefix * f[2], 10 * f[2] >>

BestMeasure(lev, jaro, prefix) == FracMax(lev, FracMax(jaro, WinklerFraction(jaro, prefix)))

\* the score of an alias: the maximum of the three similarity measures
ExactScore(teamName, alias) ==
    BestMeasure(LevenshteinFraction(teamName, alias), JaroFraction(teamName, alias),
                Min2(CommonPrefix(teamName, alias), 4))

ExactScores(teamName) ==
    <<>> \o [k \in 1..Len(getStandardTeamMappings) |->
                ExactScore(teamName, getStandardTeamMappings[k][1])]

\* the aliases whose score is the highest over the whole table
TopAliases(fr) == { k \in DOMAIN fr : \A j \in DOMAIN fr : FracLeq(fr[j], fr[k]) }

\* what the claim gives for a name that is not a key: the canonical name of
\* a top alias when the top score is at least 0.70, else the input in title case
BestOrTitle(teamName, normalized, fr, top) ==
    IF \E k \in top : FracLeq(<<7, 10>>, fr[k])
    THEN normalized \in { getStandardTeamMappings[k][2] : k \in top }
    ELSE normalized = Title(teamName)

BestOrTitleOf(teamName, normalized, fr) == BestOrTitle(teamName, normalized, fr, TopAliases(fr))

\* C13: for a team name whose cleaned form is not a key of the alias table,
\* normalizeTeamName returns the canonical name of an alias with the highest
\* score of the table when that score is at least 0.70, and otherwise the
\* input with the first letter of each word capitalized
C13_BestAliasOrTitle ==
    (/\ Last("normalizeTeamName")
     /\ MappingHits(CleanTeamName(calls[1].in)) = {})
    => BestOrTitleOf(calls[1].in, calls[1].ret, ExactScores(CleanTeamName(calls[1].in)))

\* C14: a team name whose cleaned form is a key of the alias table is given
\* that key's canonical name: "Real Madrid CF" and "madrid" give "Real Madrid",
\* "FC Barcelona" gives "Barcelona"
C14_DirectMapping ==
    Last("normalizeTeamName")
    => /\ \A k \in MappingHits(CleanTeamName(calls[1].in)) :
              calls[1].ret = getStandardTeamMappings[k][2]
       /\ calls[1].in \in {"Real Madrid CF", "madrid"} => calls[1].ret = "Real Madrid"
       /\ calls[1].in = "FC Barcelona" => calls[1].ret = "Barcelona"

\* normalizeTeamName("Real Madrid CF") has returned: the cleaned name "real
\* madrid" is a key
C14_Witness ==
    /\ Last("normalizeTeamName")
    /\ calls[1].in = "Real Madrid CF"
    /\ CleanTeamName(calls[1].in) = "real madrid"
    /\ MappingHits("real madrid") # {}

\* C15: for two team names A and B, the event names "A vs B", "A vs. B",
\* "A VS B" and "A Vs. B" all give "<normalizeTeamName(A)> vs
\* <normalizeTeamName(B)>": the separator is recognised whatever its case and
\* with or without the period, which is not passed on to a team name
C15_SeparatorRecognised ==
    Last("normalizeEventName")
    => \A pair \in TeamPairs, sep \in Separators :
           calls[1].in = pair[1] \o sep \o pair[2]
           => calls[1].ret \in { home \o " vs " \o away :
                                   home \in normalizeTeamName(pair[1]),
                                   away \in normalizeTeamName(pair[2]) }

\* the number of times sub occurs in s
Occurrences(s, sub) ==
    Cardinality({ i \in 1..(Len(s) - Len(sub) + 1) : SubSeq(s, i, i + Len(sub) - 1) = sub })

\* C16: an event name whose split on "vs" (after the "vs." and "v" forms are
\* rewritten) does not give exactly two parts is returned unchanged
C16_UnsplitUnchanged ==
    (/\ Last("normalizeEventName")
     /\ Occurrences(StandardizeVs(TrimSpace(calls[1].in)), "vs") # 1)
    => calls[1].ret = calls[1].in

\* the last application is a scrape
LastScrape == calls # <<>> /\ calls[1].op \in SingleSources

\* the elements of a page that have a link, in page order
Linked(page) == SelectSeq(page, LAMBDA e : e.href # "")

\* link ends with href
EndsWith(link, href) ==
    Len(link) >= Len(href) /\ SubSeq(link, Len(link) - Len(href) + 1, Len(link)) = href

\* C17: a scrape of a page of n elements of which k have no link returns no
\* error and exactly n - k events, one for each element that has a link, in
\* page order, each with a non-empty link and the source name of its
\* extractor, also for an element that has none of its texts
C17_LinklessDropped ==
    LastScrape
    => LET linked == Linked(calls[1].in)
           events == calls[1].ret.result.Events
       IN  /\ ~calls[1].ret.err
           /\ Len(events) = Len(linked)
           /\ calls[1].ret.result.Total = Len(linked)
           /\ \A i \in 1..Len(events) :
                  /\ events[i].Link # ""
                  /\ i <= Len(linked) => EndsWith(events[i].Link, linked[i].href)
                  /\ events[i].Source = calls[1].op

\* a Sport365 page of three rows has been scraped: one without a link between
\* a full one and one that has a link and no text
C17_Witness ==
    /\ LastScrape
    /\ calls[1].op = "sport365"
    /\ Len(calls[1].in) = 3
    /\ calls[1].in[1].href = "/e/3"
    /\ calls[1].in[2].href = ""
    /\ calls[1].in[3] = BareElement("sport365")
    /\ Len(calls[1].ret.result.Events) = 2

(***************************************************************************)
(* Properties of the library runs (SpecLib)                                *)
(***************************************************************************)
\* the library calls made so far, by operation; calls[1] is the scrape
CallsOf(op) == { i \in 2..Len(calls) : calls[i].op = op }

\* what call i was given and what it returned
In(i) == calls[i].in
Out(i) == heap[calls[i].ret]

\* the elements of a sequence, in order, that satisfy Test
Sub(events, Test(_)) == SelectSeq(events, Test)

\* keyword occurs in field when case is ignored
OccursIn(keyword, field) ==
    \E i \in 1..(Len(field) - Len(keyword) + 1) :
        ToLower(SubSeq(field, i, i + Len(keyword) - 1)) = ToLower(keyword)

MatchesKeyword(e, keyword) ==
    \/ OccursIn(keyword, e.Event)
    \/ OccursIn(keyword, e.DateTime)
    \/ OccursIn(keyword, e.Source)

\* the text matches none of the nine formats
Unparseable(e) == \A k \in 1..Len(formats) : ~TimeParse(formats[k], e.DateTime).ok

\* instants in their order
Instant(t) == <<t.year, t.month, t.day, t.hour, t.min>>
RECURSIVE LexLeq(_, _, _)
LexLeq(a, b, k) ==
    \/ k > Len(a)
    \/ a[k] < b[k]
    \/ a[k] = b[k] /\ LexLeq(a, b, k + 1)
NotAfter(t, u) == LexLeq(Instant(t), Instant(u), 1)

\* C1: every ScrapingResult a scraper, the merge, a filter or the normalizer
\* has returned (the one ScrapeSport365RealMadridMatches returns with an error
\* too) has Total equal to the number of its Events
C1_TotalIsLength == \A p \in DOMAIN heap : heap[p].Total = Len(heap[p].Events)

\* a merge of three scrapes one of which is Sport365's that failed, then two
\* library calls, every result met keeping events
C1_Witness ==
    /\ Len(calls) = 3
    /\ calls[1].op = "all"
    /\ heap[3].Events = <<>>
    /\ \A i \in 1..3 : Len(Out(i).Events) >= 1
    /\ Len(Out(1).Events) = 2
    /\ \E i \in CallsOf("FilterByDate") : Len(Out(i).Events) < Len(In(i).Events)

\* a failed Sport365 scrape has returned its result
C1_WitnessSport365 ==
    /\ calls[1].op = "sport365" /\ calls[1].err /\ Len(calls) = 3
    /\ CallsOf("NormalizeScrapingResult") # {}

\* C6: FilterByKeyword, FilterByDate and NormalizeScrapingResult leave the
\* result they are given as it was: whoever holds it reads the events and
\* the total it had before the call, whatever is done afterwards
C6_ArgumentUnchanged == \A i \in 2..Len(calls) : heap[calls[i].recv] = In(i)

\* a normalization that changed an event name and a filter that dropped an
\* event, the result given to each still as it was
C6_Witness ==
    /\ \E i \in CallsOf("NormalizeScrapingResult") :
          /\ Out(i).Events # In(i).Events
          /\ heap[calls[i].recv].Events = In(i).Events
    /\ \E i \in CallsOf("FilterByDate") \cup CallsOf("FilterByKeyword") :
          /\ Len(Out(i).Events) < Len(In(i).Events)
          /\ heap[calls[i].recv].Events = In(i).Events

\* C7: FilterByDate keeps every event whose DateTime matches none of the nine
\* formats, whatever startDate and endDate are, endDate before startDate
\* included: the unparseable events of its output are those of its input
C7_UnparseableRetained ==
    \A i \in CallsOf("FilterByDate") :
        Sub(Out(i).Events, Unparseable) = Sub(In(i).Events, Unparseable)

\* a FilterByDate with endDate before startDate that dropped an event and
\* kept an unparseable one
C7_Witness ==
    \E i \in CallsOf("FilterByDate") :
        /\ ~NotAfter(calls[i].startDate, calls[i].endDate)
        /\ Len(Out(i).Events) < Len(In(i).Events)
        /\ \E k \in 1..Len(Out(i).Events) : Unparseable(Out(i).Events[k])

\* C8: of the events whose DateTime parses to an instant t, FilterByDate keeps
\* exactly those with startDate <= t <= endDate, both ends included, in the
\* order they had
C8_ParsedKeptIffInRange ==
    \A i \in CallsOf("FilterByDate") :
        Sub(Out(i).Events, LAMBDA e : parseEventDate(e.DateTime, now).ok)
        = Sub(In(i).Events,
              LAMBDA e : /\ parseEventDate(e.DateTime, now).ok
                         /\ NotAfter(calls[i].startDate, parseEventDate(e.DateTime, now).t)
                         /\ NotAfter(parseEventDate(e.DateTime, now).t, calls[i].endDate))

\* a FilterByDate that kept an event at startDate and another at endDate
C8_KeptAtBothEnds ==
    \E i \in CallsOf("FilterByDate") :
        /\ calls[i].startDate # calls[i].endDate
        /\ \E k \in 1..Len(Out(i).Events) :
              /\ parseEventDate(Out(i).Events[k].DateTime, now).ok
              /\ parseEventDate(Out(i).Events[k].DateTime, now).t = calls[i].startDate
        /\ \E k \in 1..Len(Out(i).Events) :
              /\ parseEventDate(Out(i).Events[k].DateTime, now).ok
              /\ parseEventDate(Out(i).Events[k].DateTime, now).t = calls[i].endDate

\* a FilterByDate that dropped a parsed event after endDate
C8_DroppedAfterEnd ==
    \E i \in CallsOf("FilterByDate") :
        \E k \in 1..Len(In(i).Events) :
            /\ parseEventDate(In(i).Events[k].DateTime, now).ok
            /\ ~NotAfter(parseEventDate(In(i).Events[k].DateTime, now).t, calls[i].endDate)
            /\ Len(Out(i).Events) < Len(In(i).Events)

\* both in one run
C8_Witness == C8_KeptAtBothEnds /\ C8_DroppedAfterEnd

C10_KeywordIdempotent ==
    \A i \in CallsOf("FilterByKeyword") :
        (/\ i - 1 \in CallsOf("FilterByKeyword")
         /\ calls[i - 1].keyword = calls[i].keyword
         /\ calls[i].recv = calls[i - 1].ret)
        => Out(i).Events = Out(i - 1).Events

\* FilterByKeyword twice with one keyword, the first call having dropped an
\* event and kept two
C10_Witness ==
    \E i \in CallsOf("FilterByKeyword") :
        /\ i - 1 \in CallsOf("FilterByKeyword")
        /\ calls[i - 1].keyword = calls[i].keyword
        /\ calls[i].keyword # ""
        /\ calls[i].recv = calls[i - 1].ret
        /\ Len(In(i - 1).Events) = 3
        /\ Len(Out(i - 1).Events) = 2

\* C11: FilterByKeyword with the empty keyword returns a result with the
\* events, in their order, the Total, Timestamp, SourceURL and Source of the
\* result it was called on
C11_EmptyKeywordIdentity ==
    \A i \in CallsOf("FilterByKeyword") :
        calls[i].keyword = "" =>
            /\ Out(i).Events = In(i).Events
            /\ Out(i).Total = In(i).Total
            /\ Out(i).Timestamp = In(i).Timestamp
            /\ Out(i).SourceURL = In(i).SourceURL
            /\ Out(i).Source = In(i).Source

\* FilterByKeyword("") has been called on a result of three events
C11_Witness ==
    \E i \in CallsOf("FilterByKeyword") :
        /\ calls[i].keyword = ""
        /\ Len(In(i).Events) = 3

(***************************************************************************)
(* Properties of the handler (Spec, SpecConc)                              *)
(***************************************************************************)
\* the events an extractor gives for a page: those of the elements with a link
RECURSIVE Extracted(_, _)
Extracted(source, page) ==
    IF page = <<>> THEN <<>>
    ELSE ParseElement(source, Head(page)) \o Extracted(source, Tail(page))

\* the events of request r's own scrape of a source, none if it failed
OwnEvents(r, source) ==
    IF fetched[r][source].ok THEN Extracted(source, fetched[r][source].page) ELSE <<>>

Concatenation(r) ==
    OwnEvents(r, "hellotickets") \o OwnEvents(r, "vividseats") \o OwnEvents(r, "sport365")

AllErrored(r) == \A source \in SingleSources : fetched[r][source].done /\ ~fetched[r][source].ok

IsAll(r) == req[r].source = "all"
Malformed(r) == InvalidFrom(req[r].from) \/ InvalidTo(req[r].to)
Done(r) == pc[r] = "done"

\* events after the keyword filter and the date filter request r asks for
KeywordKept(r, events) ==
    IF req[r].filter = "" THEN events
    ELSE Sub(events, LAMBDA e : MatchesKeyword(e, req[r].filter))

DateKept(r, events) ==
    IF req[r].from = "" /\ req[r].to = "" THEN events
    ELSE Sub(events,
             LAMBDA e : \/ ~parseEventDate(e.DateTime, now).ok
                        \/ /\ NotAfter(StartDate(req[r].from, now),
                                       parseEventDate(e.DateTime, now).t)
                           /\ NotAfter(parseEventDate(e.DateTime, now).t,
                                       EndDate(req[r].to, now)))

C3_MalformedDateRejectedFirst ==
    \A r \in DOMAIN pc :
        Malformed(r) =>
            /\ work[r] = <<>>
            /\ Done(r) => resp[r].status = StatusBadRequest

\* C4: a request whose source is not empty and none of hellotickets,
\* vividseats, sport365, all gets a 400, and no extractor is run, nothing
\* normalized and nothing filtered for it
C4_UnknownSourceRejected ==
    \A r \in DOMAIN pc :
        req[r].source \notin {"", "hellotickets", "vividseats", "sport365", "all"} =>
            /\ work[r] = <<>>
            /\ pc[r] \in {"start", "done"}
            /\ loc[r].result = Nil
            /\ \A p \in DOMAIN heap : r \notin writers.heap[p]
            /\ \A c \in DOMAIN collectors : r \notin writers.coll[c]
            /\ Done(r) => resp[r].status = StatusBadRequest

\* an unknown source that asked for normalization, a keyword and a range was
\* answered
C4_Witness ==
    \E r \in DOMAIN pc :
        /\ req[r].source = "ticketmaster"
        /\ req[r].normalize = "true" /\ req[r].filter # "" /\ req[r].from # ""
        /\ Done(r)
        /\ resp[r].status = StatusBadRequest

\* the response request r gets when it is the only one: from its parameters
\* and what its own fetches returned
AloneFailed(r) ==
    IF IsAll(r) THEN AllErrored(r) ELSE ~fetched[r][DefaultSource(req[r].source)].ok

AloneEvents(r) ==
    DateKept(r, KeywordKept(r, IF IsAll(r) THEN Concatenation(r)
                               ELSE OwnEvents(r, DefaultSource(req[r].source))))

\* C5: requests handled together do not interfere: each is answered as it
\* would be alone, its events only those of its own scrape; each has its own
\* collector, and no result and no collector is written by two requests
C5_NoInterference ==
    /\ \A r \in DOMAIN pc :
          Done(r) =>
              /\ resp[r].status = (IF AloneFailed(r) THEN StatusInternalServerError
                                   ELSE StatusOK)
              /\ resp[r].status = StatusOK =>
                    /\ resp[r].body.Events = AloneEvents(r)
                    /\ resp[r].body.Total = Len(AloneEvents(r))
    /\ \A r1, r2 \in DOMAIN pc : (r1 # r2 /\ loc[r1].c # 0) => loc[r1].c # loc[r2].c
    /\ \A p \in DOMAIN heap : Cardinality(writers.heap[p]) <= 1
    /\ \A c \in DOMAIN collectors : Cardinality(writers.coll[c]) <= 1

\* two requests for hellotickets were answered with the event of their own
\* page, the second having started its scrape while the first waited for its
\* own and filtered after it
C5_Witness ==
    /\ \A r \in DOMAIN pc : Done(r) /\ resp[r].status = StatusOK
    /\ \E r1, r2 \in DOMAIN pc :
          /\ r1 # r2
          /\ req[r1].source = "hellotickets" /\ req[r2].source = "hellotickets"
          /\ req[r1].filter # ""
          /\ Len(resp[r1].body.Events) = 1 /\ Len(resp[r2].body.Events) = 1
          /\ Len(heap) = 3
          /\ writers.heap = << {r1}, {r2}, {r1} >>

\* the steps a request asks for, in the order of the handler
AskedSource(r) == IF req[r].source = "" THEN "hellotickets" ELSE req[r].source

ScrapeSteps(r) ==
    IF AskedSource(r) = "all"
    THEN <<"scrape:hellotickets", "scrape:vividseats", "scrape:sport365">>
         \o (IF AllErrored(r) THEN <<>> ELSE <<"merge">>)
    ELSE IF AskedSource(r) \in SingleSources THEN <<"scrape:" \o AskedSource(r)>>
    ELSE <<>>

StepIf(asked, step) == IF asked THEN <<step>> ELSE <<>>

BeforeDates(r) ==
    ScrapeSteps(r) \o StepIf(req[r].normalize = "true", "normalize")
                   \o StepIf(req[r].filter # "", "filterByKeyword")

StepsAsked(r) ==
    BeforeDates(r) \o StepIf(req[r].from # "" \/ req[r].to # "", "filterByDate")
                   \o <<"respond">>

IsPrefix(s, t) == Len(s) <= Len(t) /\ s = SubSeq(t, 1, Len(s))

\* the events request r scraped, before any other step
Scraped1(r) == IF IsAll(r) THEN Concatenation(r) ELSE OwnEvents(r, AskedSource(r))

\* result p holds the scraped events with their names normalized
NormalizedOf(p, raw) ==
    /\ Len(heap[p].Events) = Len(raw)
    /\ \A i \in 1..Len(raw) :
          /\ heap[p].Events[i].Link = raw[i].Link
          /\ heap[p].Events[i].Event \in normalizeEventName(raw[i].Event)

\* C18: the steps of a request are applied in the order scrape,
\* normalization (only with normalize=true), keyword filter (only with a
\* filter), date filter (only with from or to), JSON response; nothing is
\* applied once a response is written, and with normalize=true the keyword is
\* matched against the normalized names
C18_StepOrder ==
    \A r \in DOMAIN pc :
        /\ IsPrefix(work[r], StepsAsked(r))
        /\ resp[r].status = StatusOK => work[r] = StepsAsked(r)
        /\ resp[r].status = StatusInternalServerError => work[r] = ScrapeSteps(r)
        /\ resp[r].status = StatusBadRequest =>
              work[r] = (IF Malformed(r) /\ ScrapeSteps(r) # <<>> THEN BeforeDates(r) ELSE <<>>)
        /\ (resp[r].status = StatusOK /\ req[r].filter # "") =>
              /\ \A i \in 1..Len(resp[r].body.Events) :
                     MatchesKeyword(resp[r].body.Events[i], req[r].filter)
              /\ req[r].normalize = "true" =>
                     \E p \in DOMAIN heap :
                         /\ NormalizedOf(p, Scraped1(r))
                         /\ resp[r].body.Events
                            = DateKept(r, KeywordKept(r, heap[p].Events))

\* a Sport365 request with normalize=true, filter=CF and from was answered:
\* the scraped name "Getafe CF vs. Sevilla" has the keyword, the normalized
\* name has not, and the response has no event
C18_Witness ==
    \E r \in DOMAIN pc :
        /\ req[r].source = "sport365" /\ req[r].normalize = "true"
        /\ req[r].filter = "CF" /\ req[r].from = "2025-09-27" /\ req[r].to = ""
        /\ resp[r].status = StatusOK
        /\ work[r] = <<"scrape:sport365", "normalize", "filterByKeyword", "filterByDate",
                       "respond">>
        /\ Len(Scraped1(r)) = 1
        /\ MatchesKeyword(Scraped1(r)[1], "CF")
        /\ resp[r].body.Events = <<>>

\* the events the date filter of request r is given
BeforeDateFilter(r) ==
    IF req[r].normalize = "true"
    THEN { KeywordKept(r, heap[p].Events) :
             p \in { q \in DOMAIN heap : NormalizedOf(q, Scraped1(r)) } }
    ELSE { KeywordKept(r, Scraped1(r)) }

SameDay(t, u) == t.year = u.year /\ t.month = u.month /\ t.day = u.day
Midnight(t) == t.hour = 0 /\ t.min = 0
Answered(r, e) == \E i \in 1..Len(resp[r].body.Events) : resp[r].body.Events[i] = e

\* what C19 says of an event whose date parses to t
BoundsOf(r, e, t) ==
    /\ (req[r].to # "" /\ SameDay(t, ParseDateParam(req[r].to).t))
        => IF Midnight(t)
           THEN (req[r].from = "" \/ NotAfter(ParseDateParam(req[r].from).t, t))
                => Answered(r, e)
           ELSE ~Answered(r, e)
    /\ (req[r].from # "" /\ SameDay(t, ParseDateParam(req[r].from).t))
        => ((req[r].to = "" \/ NotAfter(t, ParseDateParam(req[r].to).t)) => Answered(r, e))

\* C19: to=YYYY-MM-DD is the instant 00:00 of that day: of the events the
\* date filter is given, one dated on the to day at midnight is in the
\* response and one dated later on the to day is not, while one dated on the
\* from day is in the response at any time of day (the to bound allowing)
C19_ToIsMidnight ==
    \A r \in DOMAIN pc :
        (resp[r].status = StatusOK /\ (req[r].from # "" \/ req[r].to # ""))
        => \A events \in BeforeDateFilter(r) : \A i \in 1..Len(events) :
               parseEventDate(events[i].DateTime, now).ok
               => BoundsOf(r, events[i], parseEventDate(events[i].DateTime, now).t)

\* source=all with to=2025-09-27 was answered: the hellotickets event of
\* "27 Sep Sat 4:15pm" is not in the response, the Sport365 event of
\* "27 Sep 2025" is
C19_Witness ==
    \E r \in DOMAIN pc :
        /\ IsAll(r) /\ req[r].to = "2025-09-27" /\ req[r].from = ""
        /\ req[r].normalize = "" /\ req[r].filter = ""
        /\ resp[r].status = StatusOK
        /\ Len(OwnEvents(r, "hellotickets")) = 1
        /\ OwnEvents(r, "hellotickets")[1].DateTime = "27 Sep Sat 4:15pm"
        /\ ~Answered(r, OwnEvents(r, "hellotickets")[1])
        /\ Len(OwnEvents(r, "sport365")) = 1
        /\ OwnEvents(r, "sport365")[1].DateTime = "27 Sep 2025"
        /\ Answered(r, OwnEvents(r, "sport365")[1])

\* hellotickets with from=2025-09-27 was answered: the event of 4:15pm on
\* that day is in the response
C19_WitnessFrom ==
    \E r \in DOMAIN pc :
        /\ req[r].source = "hellotickets" /\ req[r].from = "2025-09-27" /\ req[r].to = ""
        /\ resp[r].status = StatusOK
        /\ Len(OwnEvents(r, "hellotickets")) = 1
        /\ Answered(r, OwnEvents(r, "hellotickets")[1])

====
